---- MODULE Spec2Model ----
(***************************************************************************)
(* hilbert-room-assignment: checkAvailabilityOfHotel, the depth-first      *)
(* roomAssignmentByPrice and roomAssignmentByRoomOccupancy.                *)
(*                                                                         *)
(* One behaviour is one call: Init draws the function and its arguments,   *)
(* every action is one step of the called function (a loop iteration, the  *)
(* code before a loop, or a return).  JavaScript arrays are sequences; a   *)
(* JavaScript index k is position k+1 of the sequence, and the values kept *)
(* in pointerArray are JavaScript (0-based) indices as in the source.      *)
(* Array.prototype.sort is stable (ECMAScript 2019), and is modelled as a  *)
(* stable insertion sort.                                                  *)
(***************************************************************************)
EXTENDS Integers, Sequences, FiniteSets, TLC

\* ----------------------------------------------------------------- bounds
\* the longest room list, the largest `guests` and the largest `query` of a call
MaxRooms == 4
MaxGuests == 3
MaxQuery == 3

\* the unit prices and the numbers of available beds a room may have
Prices == {1, 2}
Beds == {0, 1, 2}

VARIABLES
    fn,                     \* the function called: "check", "price" or "occupancy"
    roomList, guests, query,\* the arguments of the call
    pc,                     \* position in the called function
    roomListSorted,
    pointerArray,
    subsetRoomList, remainingGuests, result,          \* roomAssignmentByPrice
    resultOneRoom, resultMultipleRooms,               \* roomAssignmentByRoomOccupancy
    minimumRoomsNeeded, topRoomSelectedCount,
    isFillable, pointerArrayPointer,
    roomConfig, overcount,  \* the config being leveled and the guests it has too many
    ret,                    \* the list returned (pc = "done")
    resultJs, retJs,        \* `result` and the list returned by the compiled
                            \* roomAssignmentByPrice of index.js, which runs the
                            \* same loop on the same input
    err,                    \* the error raised (pc = "error"), or "none"
    hasSpace                \* the boolean returned by checkAvailabilityOfHotel
                            \* (pc = "checked")

vars == <<fn, roomList, guests, query, pc, roomListSorted, pointerArray,
          subsetRoomList, remainingGuests, result, resultOneRoom,
          resultMultipleRooms, minimumRoomsNeeded, topRoomSelectedCount,
          isFillable, pointerArrayPointer, roomConfig, overcount, ret, err,
          hasSpace, resultJs, retJs>>

\* ------------------------------------------------------- array primitives
RECURSIVE SumSeq(_)
SumSeq(s) == IF s = <<>> THEN 0 ELSE Head(s) + SumSeq(Tail(s))

RECURSIVE ProdSeq(_)
ProdSeq(s) == IF s = <<>> THEN 1 ELSE Head(s) * ProdSeq(Tail(s))

Max2(a, b) == IF a >= b THEN a ELSE b

\* Array.prototype.splice(start, deleteCount, ...items), the array afterwards
Splice(s, start, deleteCount, items) ==
    SubSeq(s, 1, start) \o items \o SubSeq(s, start + deleteCount + 1, Len(s))

\* Array.prototype.slice(0, end) for end >= 0
Slice0(s, end) == SubSeq(s, 1, IF end < Len(s) THEN end ELSE Len(s))

Reverse(s) == [i \in 1..Len(s) |-> s[Len(s) + 1 - i]]

\* Array.prototype.filter
RECURSIVE FilterAvailable(_, _)
FilterAvailable(s, g) ==
    IF s = <<>> THEN <<>>
    ELSE IF Head(s).available >= g
         THEN <<Head(s)>> \o FilterAvailable(Tail(s), g)
         ELSE FilterAvailable(Tail(s), g)

\* Lexicographic "compare function returns a negative number" on integer tuples
RECURSIVE KeyLess(_, _)
KeyLess(a, b) ==
    IF a = <<>> THEN FALSE
    ELSE IF Head(a) # Head(b) THEN Head(a) < Head(b)
    ELSE KeyLess(Tail(a), Tail(b))

\* Array.prototype.sort with a compare function that orders the items by their
\* keys (keys[i] is the key of s[i]); the sort is stable, so the item at
\* position i moves behind the items with a smaller key and the items with an
\* equal key that stood before it
SortedPosition(keys, i) ==
    1 + Cardinality({j \in DOMAIN keys :
                        \E a \in {keys[j]}, b \in {keys[i]} :
                            KeyLess(a, b) \/ (a = b /\ j < i)})

StableSort(s, keys) ==
    [p \in 1..Len(s) |-> s[CHOOSE i \in 1..Len(s) : SortedPosition(keys, i) = p]]

\* ------------------------------------------------------------ the inputs
Room(i, p, a) == [id |-> i, price |-> p, available |-> a]

\* Room lists of 0..MaxRooms rooms; room i of the list has id i.
RoomLists ==
    UNION { { [i \in 1..n |-> Room(i, f[i][1], f[i][2])] :
                f \in [1..n -> Prices \X Beds] } :
            n \in 0..MaxRooms }

\* ------------------------------------------------ checkAvailabilityOfHotel
Availables(rooms) == [i \in 1..Len(rooms) |-> rooms[i].available]

CheckAvailabilityOfNonEmpty(rooms, g) ==
    Len(rooms) > 0 /\ SumSeq(Availables(rooms)) >= g

CheckAvailabilityStrict(rooms, g) == SumSeq(Availables(rooms)) > g

checkAvailabilityOfHotel(rooms, g) == SumSeq(Availables(rooms)) >= g

\* ------------------------------------------------------- shared helpers
\* item => ({id: item.id, guests: item.available, price: item.price})
ConfigOf(rooms) ==
    [i \in 1..Len(rooms) |->
        [id |-> rooms[i].id, guests |-> rooms[i].available, price |-> rooms[i].price]]

GuestsOf(rc) == [i \in 1..Len(rc) |-> rc[i].guests]

TotalPriceUnitSum(rc) ==
    SumSeq([i \in 1..Len(rc) |-> rc[i].price])

\* roomConfig.reduce((acc, val) => acc + val.guests*val.price, 0)
TotalPrice(rc) ==
    SumSeq([i \in 1..Len(rc) |-> rc[i].guests * rc[i].price])

\* pointerArray indices -> rooms; an index outside the list maps to undefined,
\* whose property access raises a TypeError
InRange(indices, rooms) == \A k \in 1..Len(indices) : indices[k] \in 0..(Len(rooms) - 1)

RoomsAt(indices, rooms) == [k \in 1..Len(indices) |-> rooms[indices[k] + 1]]

\* --------------------------------------------------- roomAssignmentByPrice
PriceKey(room) == <<room.price>>

InputOrder(rooms) == rooms

\* roomList.concat().sort((a, b) => a.price - b.price)
SortByPrice(rooms) == StableSort(rooms, [i \in 1..Len(rooms) |-> PriceKey(rooms[i])])

TotalPriceKey(config) == <<config.totalPrice>>

\* result.sort((a, b) => a.totalPrice - b.totalPrice)
SortResult(res) == StableSort(res, [i \in 1..Len(res) |-> TotalPriceKey(res[i])])

PriceConfigFirstCorrected(subset, remaining) ==
    LET full == ConfigOf(subset)
        rc == [full EXCEPT ![1].guests = @ + remaining]
    IN  [roomConfig |-> rc, totalPrice |-> TotalPrice(rc)]

PriceConfigReversed(subset, remaining) ==
    LET full == ConfigOf(subset)
        n == Len(full)
        rc == Reverse([full EXCEPT ![n].guests = @ + remaining])
    IN  [roomConfig |-> rc, totalPrice |-> TotalPrice(rc)]

\* the config pushed to result: every room full, the last one corrected by
\* remainingGuests (<= 0), then the total price
PriceConfig(subset, remaining) ==
    LET full == ConfigOf(subset)
        n == Len(full)
        rc == [full EXCEPT ![n].guests = @ + remaining]
    IN  [roomConfig |-> rc, totalPrice |-> TotalPrice(rc)]

\* the loop "for (pointer = length-1; pointer > 0; pointer--)": the highest
\* JavaScript index whose left neighbour is not adjacent, or 0
RECURSIVE NextBranchPointer(_, _)
NextBranchPointer(pa, pointer) ==
    IF pointer > 0 /\ pa[pointer + 1] - pa[pointer] = 1
    THEN NextBranchPointer(pa, pointer - 1)
    ELSE pointer

NextBranchRestart(pa, pointer) == <<0, pa[Len(pa)]>>

\* the index vector after "go to next branch", for pointer > 0
NextBranch(pa, pointer) ==
    IF pointer = Len(pa) - 1
    THEN [pa EXCEPT ![pointer] = @ + 1]
    ELSE LET removed == SubSeq(pa, pointer, Len(pa) - 1)
             kept == Splice(pa, pointer - 1, Len(pa) - pointer, <<>>)
         IN  Splice(kept, pointer - 1, 0, <<removed[1] + 1>>)

SortedInPlace(rooms, sorted) == sorted

\* the caller's array after "roomList.concat().sort(...)": concat() makes a new
\* array and sort() reorders that one, so the caller's array is as it was
AfterConcatSort(rooms, sorted) == rooms

\* ------------------------------------------- roomAssignmentByRoomOccupancy
AvailableDescKey(room) == <<0 - room.available>>

\* roomList.concat().sort((a, b) => b.available - a.available)
SortByAvailableDesc(rooms) == StableSort(rooms, [i \in 1..Len(rooms) |-> AvailableDescKey(rooms[i])])

GuestsDescKey(alloc) == <<0 - alloc.guests>>

\* roomConfig.sort((a, b) => b.guests - a.guests)
SortByGuestsDesc(rc) == StableSort(rc, [i \in 1..Len(rc) |-> GuestsDescKey(rc[i])])

\* the config pushed by the compiled roomAssignmentByPrice of index.js: the
\* allocations, every room full, are sorted by guests descending before the
\* last one is corrected by remainingGuests
\* (x \in {e} names the one value of e, like a var declaration)
PriceConfigJs(subset, remaining) ==
    CHOOSE config \in
        {[roomConfig |-> rc, totalPrice |-> TotalPrice(rc)] :
            rc \in {[full EXCEPT ![Len(full)].guests = @ + remaining] :
                        full \in {SortByGuestsDesc(ConfigOf(subset))}}} : TRUE

OneRoomResultsUnreversed(sorted, g) ==
    LET fit == FilterAvailable(sorted, g)
    IN  [i \in 1..Len(fit) |->
            [roomConfig |-> <<[id |-> fit[i].id, guests |-> g, price |-> fit[i].price]>>,
             totalPrice |-> fit[i].price * g]]

OneRoomConfig(room, g) ==
    [roomConfig |-> <<[id |-> room.id, guests |-> g, price |-> room.price]>>,
     totalPrice |-> room.price * g]

\* roomListSortedOneRoom.reverse().map(...): one config per room that fits all
\* guests, tightest fit first
OneRoomResults(sorted, g) ==
    LET fit == Reverse(FilterAvailable(sorted, g))
    IN  [i \in 1..Len(fit) |-> OneRoomConfig(fit[i], g)]

KeepMinimum(m) == m

\* minimumRoomsNeeded !== 1 ? minimumRoomsNeeded : 2
SkipSingleRoom(m) == IF m # 1 THEN m ELSE 2

\* Array.apply(null, {length: m}).map(Number.call, Number), then push(n)
InitialPointerArrayFromOne(m, n) == [k \in 1..(m + 1) |-> IF k <= m THEN k ELSE n]

InitialPointerArray(m, n) == [k \in 1..(m + 1) |-> IF k <= m THEN k - 1 ELSE n]

LevelStepKept(rc) == rc

LevelStepUnsorted(rc) == [rc EXCEPT ![1].guests = @ - 1]

\* the config of one subset before the overcount test: rooms full, largest first
FullConfig(subset) == SortByGuestsDesc(ConfigOf(subset))

Overcount(rc, g) == SumSeq(GuestsOf(rc)) - g

\* one iteration of while (overcount > 0), on the config:
\* roomConfig[0].guests--; roomConfig.sort((a, b) => b.guests - a.guests)
LevelStep(rc) == SortByGuestsDesc([rc EXCEPT ![1].guests = @ - 1])

\* "Increment index": for (index = pointerArrayPointer; index < m; index++)
RECURSIVE IncrementIndex(_, _, _, _)
IncrementIndex(pa, index, m, pointer) ==
    IF index >= m
    THEN [pointerArray |-> pa, isFillable |-> FALSE, pointerArrayPointer |-> pointer]
    ELSE LET bumped == [pa EXCEPT ![index + 1] = @ + 1]
         IN  IF bumped[index + 1] < bumped[index + 2]
             THEN [pointerArray |-> bumped, isFillable |-> TRUE,
                   pointerArrayPointer |-> Max2(0, index - 1)]
             ELSE IncrementIndex([bumped EXCEPT ![index + 1] = index], index + 1, m, pointer)

\* for (j = i; j <= length-2; j++) pointerArray[j] = pointerArray[j-1] + 1
RECURSIVE Repack(_, _)
Repack(pa, j) ==
    IF j <= Len(pa) - 2
    THEN Repack([pa EXCEPT ![j + 1] = pa[j] + 1], j + 1)
    ELSE pa

\* "Skip pointerArray ...": for (i = length-2; i > 0; i--), with the value of i
\* when the loop is left
RECURSIVE SkipInfeasible(_, _)
SkipInfeasible(pa, i) ==
    IF i > 0
    THEN IF pa[i + 1] - pa[i] >= 2
         THEN [pointerArray |-> Repack([pa EXCEPT ![i] = @ + 1], i), i |-> i]
         ELSE SkipInfeasible(pa, i - 1)
    ELSE [pointerArray |-> pa, i |-> i]

ProductKeyAscending(config) ==
    <<Len(config.roomConfig), ProdSeq(GuestsOf(config.roomConfig)), 0 - config.totalPrice>>

\* the compare function of resultMultipleRooms.sort: room count ascending, then
\* product of guests descending, then totalPrice descending
MultiKey(config) ==
    <<Len(config.roomConfig), 0 - ProdSeq(GuestsOf(config.roomConfig)), 0 - config.totalPrice>>

SortMulti(res) == StableSort(res, [i \in 1..Len(res) |-> MultiKey(res[i])])

FinalResultMultiFirst(one, multi, q) == Slice0(multi \o one, q)

\* resultOneRoom.concat(resultMultipleRooms).slice(0, query), after the sort
FinalResult(one, multi, q) == Slice0(one \o multi, q)

\* ------------------------------------------------------------------ Init
Init ==
    /\ fn \in {"check", "price", "occupancy"}
    /\ roomList \in RoomLists
    /\ guests \in 0..MaxGuests
    /\ query \in (IF fn = "check" THEN {0} ELSE 0..MaxQuery)  \* no `query` parameter
    /\ pc = "start"
    /\ roomListSorted = <<>>
    /\ pointerArray = <<>>
    /\ subsetRoomList = <<>>
    /\ remainingGuests = 0
    /\ result = <<>>
    /\ resultOneRoom = <<>>
    /\ resultMultipleRooms = <<>>
    /\ minimumRoomsNeeded = 0
    /\ topRoomSelectedCount = 0
    /\ isFillable = FALSE
    /\ pointerArrayPointer = 0
    /\ roomConfig = <<>>
    /\ overcount = 0
    /\ ret = <<>>
    /\ err = "none"
    /\ hasSpace = FALSE
    /\ resultJs = <<>>
    /\ retJs = <<>>

occVars == <<resultOneRoom, resultMultipleRooms, minimumRoomsNeeded,
             topRoomSelectedCount, isFillable, pointerArrayPointer>>

levelVars == <<roomConfig, overcount>>

priceVars == <<subsetRoomList, remainingGuests, result, resultJs>>

args == <<fn, roomList, guests, query>>

\* throw: the call ends with an error and returns nothing
Raise(e) == /\ pc' = "error"
            /\ err' = e
            /\ ret' = <<>>
            /\ retJs' = <<>>

Return(list) == /\ pc' = "done"
                /\ ret' = list
                /\ err' = "none"

\* ---------------------------------------- action: checkAvailabilityOfHotel
\* the whole function: one reduce and one comparison, nothing is thrown
CheckAvailability ==
    /\ pc = "start" /\ fn = "check"
    /\ hasSpace' = checkAvailabilityOfHotel(roomList, guests)
    /\ pc' = "checked"
    /\ UNCHANGED <<args, roomListSorted, pointerArray, priceVars, occVars, levelVars,
                   ret, retJs, err>>

\* ------------------------------------------- actions: roomAssignmentByPrice
\* if (!checkAvailabilityOfHotel(...)) throw Error('Not enough space.')
PriceNotEnoughSpace ==
    /\ pc = "start" /\ fn = "price"
    /\ ~checkAvailabilityOfHotel(roomList, guests)
    /\ Raise("Not enough space.")
    /\ UNCHANGED <<args, hasSpace, levelVars, roomListSorted, pointerArray, priceVars, occVars>>

\* the declarations before the search loop; roomListSorted[0] of an empty list
\* is undefined and reading its `available` raises a TypeError
\* (\E x \in {e} : ... names the one value of e, like a const declaration)
PriceBegin ==
    /\ pc = "start" /\ fn = "price"
    /\ checkAvailabilityOfHotel(roomList, guests)
    /\ \E sorted \in {SortByPrice(roomList)} :
           IF Len(sorted) = 0
           THEN /\ Raise("TypeError")
                /\ roomListSorted' = sorted
                /\ pointerArray' = <<0, Len(roomList)>>
                /\ UNCHANGED priceVars
           ELSE /\ roomListSorted' = sorted
                /\ pointerArray' = <<0, Len(roomList)>>
                /\ subsetRoomList' = <<sorted[1]>>
                /\ remainingGuests' = guests - sorted[1].available
                /\ result' = <<>>
                /\ resultJs' = <<>>
                /\ pc' = "dfs"
                /\ UNCHANGED <<ret, retJs, err>>
    /\ roomList' = AfterConcatSort(roomList, roomListSorted')
    /\ UNCHANGED <<fn, guests, query, hasSpace, levelVars, occVars>>

\* the end of one loop iteration: the subset and the guests it leaves over
Recompute(pa) ==
    LET indices == SubSeq(pa, 1, Len(pa) - 1)
    IN  IF InRange(indices, roomListSorted)
        THEN LET subset == RoomsAt(indices, roomListSorted)
             IN  /\ subsetRoomList' = subset
                 /\ remainingGuests' = guests - SumSeq(Availables(subset))
                 /\ pc' = "dfs"
                 /\ UNCHANGED <<ret, retJs, err>>
        ELSE /\ Raise("TypeError")
             /\ UNCHANGED <<subsetRoomList, remainingGuests>>

\* while (result.length < query) is left: return result.sort(...)
PriceReturnSorted ==
    /\ pc = "dfs"
    /\ ~(Len(result) < query)
    /\ Return(SortResult(result))
    /\ retJs' = resultJs
    /\ UNCHANGED <<args, hasSpace, levelVars, roomListSorted, pointerArray, priceVars, occVars>>

NextNeighbourOnly ==
    pointerArray[Len(pointerArray)] - pointerArray[Len(pointerArray) - 1] # 1

\* the condition of the if: guests remain and the last index has a neighbour
\* before the boundary
MoreGuestsAndNextNeighbour ==
    /\ remainingGuests > 0
    /\ pointerArray[Len(pointerArray)] - pointerArray[Len(pointerArray) - 1] # 1

\* "if more guests and can continue to next neighbor branch"
PriceDescend ==
    /\ pc = "dfs"
    /\ Len(result) < query
    /\ MoreGuestsAndNextNeighbour
    /\ pointerArray' = Splice(pointerArray, Len(pointerArray) - 1, 0,
                              <<pointerArray[Len(pointerArray) - 1] + 1>>)
    /\ Recompute(pointerArray')
    /\ UNCHANGED <<args, hasSpace, levelVars, roomListSorted, result, resultJs, occVars>>

ElseBranch ==
    /\ pc = "dfs"
    /\ Len(result) < query
    /\ ~MoreGuestsAndNextNeighbour

PushedOnlyWithSpareBeds ==
    IF remainingGuests < 0
    THEN Append(result, PriceConfig(subsetRoomList, remainingGuests))
    ELSE result

\* if (remainingGuests <= 0) { result.push({roomConfig, totalPrice}) }
Pushed == IF remainingGuests <= 0
          THEN Append(result, PriceConfig(subsetRoomList, remainingGuests))
          ELSE result

\* the same statement of index.js, on its own result
PushedJs == IF remainingGuests <= 0
            THEN Append(resultJs, PriceConfigJs(subsetRoomList, remainingGuests))
            ELSE resultJs

\* else branch, a next branch exists: push the config if the guests fit, then
\* "go to next branch"
PriceAdvance ==
    /\ ElseBranch
    /\ LET pointer == NextBranchPointer(pointerArray, Len(pointerArray) - 1)
       IN  /\ pointer # 0
           /\ result' = Pushed
           /\ resultJs' = PushedJs
           /\ pointerArray' = NextBranch(pointerArray, pointer)
           /\ Recompute(pointerArray')
    /\ UNCHANGED <<args, hasSpace, levelVars, roomListSorted, occVars>>

\* else branch, pointer === 0: "cannot traverse anymore, return as is"
PriceExhausted ==
    /\ ElseBranch
    /\ NextBranchPointer(pointerArray, Len(pointerArray) - 1) = 0
    /\ result' = Pushed
    /\ resultJs' = PushedJs
    /\ Return(result')
    /\ retJs' = resultJs'
    /\ UNCHANGED <<args, hasSpace, levelVars, roomListSorted, pointerArray, subsetRoomList,
                   remainingGuests, occVars>>

\* ----------------------------------- actions: roomAssignmentByRoomOccupancy
OccNotEnoughSpace ==
    /\ pc = "start" /\ fn = "occupancy"
    /\ ~checkAvailabilityOfHotel(roomList, guests)
    /\ Raise("Not enough space.")
    /\ UNCHANGED <<args, hasSpace, levelVars, roomListSorted, pointerArray, priceVars, occVars>>

\* the single-room pass when it does not bypass the search
OccBegin ==
    /\ pc = "start" /\ fn = "occupancy"
    /\ checkAvailabilityOfHotel(roomList, guests)
    /\ \E sorted \in {SortByAvailableDesc(roomList)} :
       \E one \in {OneRoomResults(sorted, guests)} :
           /\ ~(Len(one) > query)
           /\ roomList' = AfterConcatSort(roomList, sorted)
           /\ roomListSorted' = sorted
           /\ resultOneRoom' = one
    /\ minimumRoomsNeeded' = 0
    /\ topRoomSelectedCount' = 0
    /\ pc' = "minimum"
    /\ UNCHANGED <<fn, guests, query, hasSpace, levelVars, pointerArray, priceVars,
                   resultMultipleRooms,
                   isFillable, pointerArrayPointer, ret, retJs, err>>

\* "Bypass the algorithm for low number of guests/query"
OccBypass ==
    /\ pc = "start" /\ fn = "occupancy"
    /\ checkAvailabilityOfHotel(roomList, guests)
    /\ \E sorted \in {SortByAvailableDesc(roomList)} :
       \E one \in {OneRoomResults(sorted, guests)} :
           /\ Len(one) > query
           /\ roomList' = AfterConcatSort(roomList, sorted)
           /\ roomListSorted' = sorted
           /\ resultOneRoom' = one
           /\ Return(Slice0(one, query))
           /\ UNCHANGED retJs
    /\ UNCHANGED <<fn, guests, query, hasSpace, levelVars, pointerArray, priceVars,
                   resultMultipleRooms,
                   minimumRoomsNeeded, topRoomSelectedCount, isFillable,
                   pointerArrayPointer>>

\* one iteration of while (guests > topRoomSelectedCount)
OccCountRoom ==
    /\ pc = "minimum"
    /\ guests > topRoomSelectedCount
    /\ IF minimumRoomsNeeded < Len(roomListSorted)
       THEN /\ topRoomSelectedCount' =
                  topRoomSelectedCount + roomListSorted[minimumRoomsNeeded + 1].available
            /\ minimumRoomsNeeded' = minimumRoomsNeeded + 1
            /\ UNCHANGED <<pc, ret, retJs, err>>
       ELSE /\ Raise("TypeError")
            /\ UNCHANGED <<topRoomSelectedCount, minimumRoomsNeeded>>
    /\ UNCHANGED <<args, hasSpace, levelVars, roomListSorted, pointerArray, priceVars,
                   resultOneRoom,
                   resultMultipleRooms, isFillable, pointerArrayPointer>>

\* the loop is left: "Ignore the case of single room"
OccMinimumFound ==
    /\ pc = "minimum"
    /\ ~(guests > topRoomSelectedCount)
    /\ minimumRoomsNeeded' = SkipSingleRoom(minimumRoomsNeeded)
    /\ pc' = "sizes"
    /\ UNCHANGED <<args, hasSpace, levelVars, roomListSorted, pointerArray, priceVars,
                   resultOneRoom,
                   resultMultipleRooms, topRoomSelectedCount, isFillable,
                   pointerArrayPointer, ret, retJs, err>>

MoreSizesUnbounded == Len(resultOneRoom) + Len(resultMultipleRooms) < query

\* the condition of the outer while loop
MoreSizes ==
    /\ Len(resultOneRoom) + Len(resultMultipleRooms) < query
    /\ minimumRoomsNeeded <= Len(roomListSorted)

\* the outer while loop is entered for one more subset size
OccBeginSize ==
    /\ pc = "sizes"
    /\ MoreSizes
    /\ pointerArray' = InitialPointerArray(minimumRoomsNeeded, Len(roomListSorted))
    /\ isFillable' = TRUE
    /\ pointerArrayPointer' = 0
    /\ pc' = "subsets"
    /\ UNCHANGED <<args, hasSpace, levelVars, roomListSorted, priceVars, resultOneRoom,
                   resultMultipleRooms, minimumRoomsNeeded, topRoomSelectedCount,
                   ret, retJs, err>>

\* the outer while loop is left: sort, concat, slice
OccReturn ==
    /\ pc = "sizes"
    /\ ~MoreSizes
    /\ resultMultipleRooms' = SortMulti(resultMultipleRooms)
    /\ Return(FinalResult(resultOneRoom, resultMultipleRooms', query))
    /\ UNCHANGED retJs
    /\ UNCHANGED <<args, hasSpace, levelVars, roomListSorted, pointerArray, priceVars,
                   resultOneRoom,
                   minimumRoomsNeeded, topRoomSelectedCount, isFillable,
                   pointerArrayPointer>>

CurrentIndices == SubSeq(pointerArray, 1, minimumRoomsNeeded)

CurrentSubset == RoomsAt(CurrentIndices, roomListSorted)

\* one iteration of while (isFillable) begins, overcount >= 0: isFillable =
\* false, then the config of the subset, every room full
OccConfigure ==
    /\ pc = "subsets"
    /\ isFillable
    /\ isFillable' = FALSE
    /\ IF ~InRange(CurrentIndices, roomListSorted)
       THEN /\ Raise("TypeError")
            /\ UNCHANGED levelVars
       ELSE \E full \in {FullConfig(CurrentSubset)} :
            /\ Overcount(full, guests) >= 0
            /\ roomConfig' = full
            /\ overcount' = Overcount(full, guests)
            /\ pc' = "level"
            /\ UNCHANGED <<ret, retJs, err>>
    /\ UNCHANGED <<args, hasSpace, roomListSorted, pointerArray, priceVars,
                   resultOneRoom, resultMultipleRooms, minimumRoomsNeeded,
                   topRoomSelectedCount, pointerArrayPointer>>

\* one iteration of while (overcount > 0)
OccLevel ==
    /\ pc = "level"
    /\ overcount > 0
    /\ roomConfig' = LevelStep(roomConfig)
    /\ overcount' = overcount - 1
    /\ UNCHANGED <<args, hasSpace, pc, roomListSorted, pointerArray, priceVars, occVars,
                   ret, retJs, err>>

\* while (overcount > 0) is left: push the config, then "Increment index"
OccEmit ==
    /\ pc = "level"
    /\ ~(overcount > 0)
    /\ resultMultipleRooms' =
           Append(resultMultipleRooms,
                  [roomConfig |-> roomConfig, totalPrice |-> TotalPrice(roomConfig)])
    /\ \E next \in {IncrementIndex(pointerArray, pointerArrayPointer,
                                     minimumRoomsNeeded, pointerArrayPointer)} :
           /\ pointerArray' = next.pointerArray
           /\ isFillable' = next.isFillable
           /\ pointerArrayPointer' = next.pointerArrayPointer
    /\ pc' = "subsets"
    /\ UNCHANGED <<args, hasSpace, levelVars, roomListSorted, priceVars, resultOneRoom,
                   minimumRoomsNeeded, topRoomSelectedCount, ret, retJs, err>>

\* one iteration of while (isFillable), overcount < 0: isFillable stays false;
\* when i === 0 the size is incremented before the break
OccSkip ==
    /\ pc = "subsets"
    /\ isFillable
    /\ InRange(CurrentIndices, roomListSorted)
    /\ \E full \in {FullConfig(CurrentSubset)} : Overcount(full, guests) < 0
    /\ \E skip \in {SkipInfeasible(pointerArray, Len(pointerArray) - 2)} :
           /\ pointerArray' = skip.pointerArray
           /\ minimumRoomsNeeded' =
                  IF skip.i = 0 THEN minimumRoomsNeeded + 1 ELSE minimumRoomsNeeded
    /\ isFillable' = FALSE
    /\ UNCHANGED <<args, hasSpace, levelVars, pc, roomListSorted, priceVars, resultOneRoom,
                   resultMultipleRooms, topRoomSelectedCount, pointerArrayPointer,
                   ret, retJs, err>>

\* while (isFillable) is left: minimumRoomsNeeded++ at the end of the outer body
OccEndSize ==
    /\ pc = "subsets"
    /\ ~isFillable
    /\ minimumRoomsNeeded' = minimumRoomsNeeded + 1
    /\ pc' = "sizes"
    /\ UNCHANGED <<args, hasSpace, levelVars, roomListSorted, pointerArray, priceVars,
                   resultOneRoom,
                   resultMultipleRooms, topRoomSelectedCount, isFillable,
                   pointerArrayPointer, ret, retJs, err>>

\* ------------------------------------------------------------------ Spec
Next ==
    \/ CheckAvailability
    \/ PriceNotEnoughSpace
    \/ PriceBegin
    \/ PriceReturnSorted
    \/ PriceDescend
    \/ PriceAdvance
    \/ PriceExhausted
    \/ OccNotEnoughSpace
    \/ OccBegin
    \/ OccBypass
    \/ OccCountRoom
    \/ OccMinimumFound
    \/ OccBeginSize
    \/ OccReturn
    \/ OccConfigure
    \/ OccLevel
    \/ OccEmit
    \/ OccSkip
    \/ OccEndSize

Spec == Init /\ [][Next]_vars

\* ------------------------------------------------------ the call, as a step
\* Before the call: no function chosen, every local at its default. The
\* caller then calls one of the three functions with arguments of its choice.
Idle ==
    /\ fn = "none"
    /\ roomList = <<>>
    /\ guests = 0
    /\ query = 0
    /\ pc = "idle"
    /\ roomListSorted = <<>>
    /\ pointerArray = <<>>
    /\ subsetRoomList = <<>>
    /\ remainingGuests = 0
    /\ result = <<>>
    /\ resultOneRoom = <<>>
    /\ resultMultipleRooms = <<>>
    /\ minimumRoomsNeeded = 0
    /\ topRoomSelectedCount = 0
    /\ isFillable = FALSE
    /\ pointerArrayPointer = 0
    /\ roomConfig = <<>>
    /\ overcount = 0
    /\ ret = <<>>
    /\ err = "none"
    /\ hasSpace = FALSE
    /\ resultJs = <<>>
    /\ retJs = <<>>

Call ==
    /\ pc = "idle"
    /\ fn' \in {"check", "price", "occupancy"}
    /\ roomList' \in RoomLists
    /\ guests' \in 0..MaxGuests
    /\ query' \in (IF fn' = "check" THEN {0} ELSE 0..MaxQuery)
    /\ pc' = "start"
    /\ UNCHANGED <<roomListSorted, pointerArray, priceVars, occVars, levelVars,
                   ret, retJs, err, hasSpace>>

CallNext == Call \/ Next

\* the call is synchronous, single-threaded code: a step that can be taken is
\* taken
FairSpec == Idle /\ [][CallNext]_vars /\ WF_vars(CallNext)

\* ================================================================ claims
\* What the claims speak of, stated over the arguments and the returned list
\* only (independently of the operators the actions use).
Returned == pc = "done"

RoomCount(config) == Len(config.roomConfig)

GuestsSum(config) == SumSeq([i \in 1..Len(config.roomConfig) |-> config.roomConfig[i].guests])

Cost(config) ==
    SumSeq([i \in 1..Len(config.roomConfig) |->
              config.roomConfig[i].guests * config.roomConfig[i].price])

GuestsProduct(config) ==
    ProdSeq([i \in 1..Len(config.roomConfig) |-> config.roomConfig[i].guests])

IdsOf(config) == {config.roomConfig[i].id : i \in 1..Len(config.roomConfig)}

ReturnedIdSets == {IdsOf(ret[i]) : i \in 1..Len(ret)}

\* room ids are the positions in roomList
AllIds == 1..Len(roomList)

CapacityOf(ids) ==
    SumSeq([i \in 1..Len(roomList) |-> IF i \in ids THEN roomList[i].available ELSE 0])

TotalCapacity == CapacityOf(AllIds)

FeasibleIdSets == {ids \in SUBSET AllIds : CapacityOf(ids) >= guests}

\* C1: every returned assignment distributes exactly `guests` guests
\* (guests >= 1, either assigner).
C1_Conservation ==
    (Returned /\ guests >= 1) =>
        \A i \in 1..Len(ret) : GuestsSum(ret[i]) = guests

\* a returned multi-room occupancy assignment whose rooms hold at least two
\* beds more than asked for, so that leveling removed guests twice
C1_Witness ==
    /\ Returned /\ guests >= 1 /\ fn = "occupancy"
    /\ \E i \in 1..Len(ret) :
          /\ RoomCount(ret[i]) >= 2
          /\ CapacityOf(IdsOf(ret[i])) >= guests + 2

\* C2: totalPrice of every returned assignment is the sum over its allocations
\* of guests assigned times unit price.
C2_PriceCorrectness ==
    Returned => \A i \in 1..Len(ret) : ret[i].totalPrice = Cost(ret[i])

\* a multi-room assignment returned by roomAssignmentByPrice, with rooms of
\* different unit prices and two guests in one of them
C2_Witness ==
    /\ Returned /\ fn = "price"
    /\ \E i \in 1..Len(ret) :
          /\ RoomCount(ret[i]) >= 2
          /\ \E a, b \in 1..RoomCount(ret[i]) :
                /\ ret[i].roomConfig[a].price # ret[i].roomConfig[b].price
                /\ ret[i].roomConfig[a].guests >= 2

\* C3: no two returned assignments use the same set of room ids (room ids are
\* distinct, guests >= 1).
C3_NoDuplicateRoomSets ==
    (Returned /\ guests >= 1) =>
        \A i, j \in 1..Len(ret) : i # j => IdsOf(ret[i]) # IdsOf(ret[j])

\* an occupancy result holding a single-room and two multi-room assignments
C3_Witness ==
    /\ Returned /\ guests >= 1 /\ fn = "occupancy"
    /\ Len(ret) >= 3
    /\ \E i, j \in 1..Len(ret) : RoomCount(ret[i]) = 1 /\ RoomCount(ret[j]) >= 2

\* C4: 'Not enough space.' is raised iff the capacities sum to less than
\* `guests`, and then nothing is returned or collected.
C4_InsufficientCapacity ==
    (pc # "start" /\ fn \in {"price", "occupancy"}) =>
        /\ (err = "Not enough space.") <=> (TotalCapacity < guests)
        /\ (TotalCapacity < guests) =>
              /\ pc = "error"
              /\ ret = <<>> /\ result = <<>>
              /\ resultOneRoom = <<>> /\ resultMultipleRooms = <<>>

\* the error raised with query = 0 by a list of rooms that lacks one bed
C4_Witness ==
    /\ pc = "error" /\ err = "Not enough space."
    /\ query = 0 /\ Len(roomList) >= 2
    /\ TotalCapacity = guests - 1

\* C5 (as claimed): the list returned by roomAssignmentByPrice is
\* non-decreasing in totalPrice on every return path.
C5_PriceOrdering ==
    (Returned /\ fn = "price") =>
        \A i \in 1..(Len(ret) - 1) : ret[i].totalPrice <= ret[i + 1].totalPrice

\* Room subsets as sets of positions of the price-sorted list.
SortedPositions == 1..Len(roomListSorted)

SortedCapacity(T) ==
    SumSeq([i \in 1..Len(roomListSorted) |->
              IF i \in T THEN roomListSorted[i].available ELSE 0])

LastOf(T) == CHOOSE i \in T : \A j \in T : j <= i

MinimalFeasible(T) ==
    /\ T # {}
    /\ SortedCapacity(T) >= guests
    /\ SortedCapacity(T \ {LastOf(T)}) < guests

\* fill every room but the most expensive one, which takes the remainder
FillCost(T) ==
    SumSeq([i \in 1..Len(roomListSorted) |->
              IF i \in T \ {LastOf(T)}
              THEN roomListSorted[i].available * roomListSorted[i].price
              ELSE 0])
    + (guests - SortedCapacity(T \ {LastOf(T)})) * roomListSorted[LastOf(T)].price

SortedIds(T) == {roomListSorted[i].id : i \in T}

\* C6 (as claimed): when roomAssignmentByPrice returns `query` assignments, no
\* absent room subset that is feasible, and infeasible without its most
\* expensive room, is cheaper than the dearest returned assignment.
C6_KCheapest ==
    (Returned /\ fn = "price" /\ query >= 1 /\ Len(ret) = query) =>
        \A T \in SUBSET SortedPositions :
            (MinimalFeasible(T) /\ SortedIds(T) \notin ReturnedIdSets) =>
                \A i \in 1..Len(ret) : FillCost(T) >= ret[i].totalPrice

\* C7: the occupancy result is non-decreasing in room count, and consecutive
\* assignments of equal room count are non-increasing in the product of guests.
C7_OccupancyOrdering ==
    (Returned /\ fn = "occupancy" /\ guests >= 1) =>
        \A i \in 1..(Len(ret) - 1) :
            /\ RoomCount(ret[i]) <= RoomCount(ret[i + 1])
            /\ RoomCount(ret[i]) = RoomCount(ret[i + 1]) =>
                  GuestsProduct(ret[i]) >= GuestsProduct(ret[i + 1])

\* two consecutive multi-room assignments of equal size, the second less even
C7_Witness ==
    /\ Returned /\ fn = "occupancy" /\ guests >= 1
    /\ \E i \in 1..(Len(ret) - 1) :
          /\ RoomCount(ret[i]) >= 2
          /\ RoomCount(ret[i]) = RoomCount(ret[i + 1])
          /\ GuestsProduct(ret[i]) > GuestsProduct(ret[i + 1])

\* C8 (as claimed): when an occupancy result uses r rooms, every feasible room
\* subset with fewer than r rooms is in the returned list too.
C8_MinimumRoomCountFirst ==
    (Returned /\ fn = "occupancy" /\ guests >= 1) =>
        \A i \in 1..Len(ret) :
            \A ids \in FeasibleIdSets :
                Cardinality(ids) < RoomCount(ret[i]) => ids \in ReturnedIdSets

\* C9: when some room fits all guests (guests >= 1, query >= 1) the first
\* occupancy result uses one room, and single-room results precede multi-room ones.
C9_SingleRoomPrecedence ==
    (/\ Returned /\ fn = "occupancy" /\ guests >= 1 /\ query >= 1
     /\ \E r \in AllIds : roomList[r].available >= guests) =>
        /\ Len(ret) >= 1
        /\ RoomCount(ret[1]) = 1
        /\ \A i, j \in 1..Len(ret) :
              (RoomCount(ret[i]) = 1 /\ RoomCount(ret[j]) > 1) => i < j

\* a returned list with a single-room assignment followed by a multi-room one
C9_Witness ==
    /\ Returned /\ fn = "occupancy" /\ guests >= 1 /\ query >= 1
    /\ \E r \in AllIds : roomList[r].available >= guests
    /\ \E i, j \in 1..Len(ret) : RoomCount(ret[i]) = 1 /\ RoomCount(ret[j]) > 1

\* C10 (as claimed): for every feasible input (guests = 0 included) the
\* returned list has at most `query` assignments and at most as many as there
\* are room subsets of total capacity >= guests.
C10_BoundedOutput ==
    Returned =>
        /\ Len(ret) <= query
        /\ Len(ret) <= Cardinality(FeasibleIdSets)

\* C11: checkAvailabilityOfHotel returns true exactly when the capacities of
\* the listed rooms sum to at least `guests`, for every list (the empty one
\* included) and every guest count, and it never raises.
C11_AvailabilityCheck ==
    (fn = "check" /\ pc # "start") =>
        /\ pc = "checked"
        /\ err = "none"
        /\ hasSpace <=> (TotalCapacity >= guests)

\* the check has answered true for the empty list and zero guests
C11_Witness ==
    /\ fn = "check" /\ pc = "checked"
    /\ roomList = <<>> /\ guests = 0 /\ hasSpace

Finished == pc \in {"done", "error"}

\* C12: with total capacity >= guests, guests >= 1 and query >= 1,
\* roomAssignmentByPrice returns at least one assignment.
C12_PriceNonEmpty ==
    (/\ fn = "price" /\ Finished
     /\ TotalCapacity >= guests /\ guests >= 1 /\ query >= 1) =>
        /\ Returned
        /\ Len(ret) >= 1

\* the only assignment returned needs every bed of a list of three or more
\* rooms: the search went to the bottom of the tree to find it
C12_Witness ==
    /\ fn = "price" /\ Returned /\ guests >= 1 /\ query >= 2
    /\ Len(roomList) >= 3 /\ TotalCapacity = guests
    /\ Len(ret) = 1 /\ RoomCount(ret[1]) = Len(roomList)

\* C13 (as claimed): for every input with total capacity >= guests (query = 0,
\* guests = 0 and the empty list with guests = 0 included) both assigners
\* return a list and raise nothing, and with query = 0 the list is empty.
C13_FeasibleAlwaysReturns ==
    (fn \in {"price", "occupancy"} /\ TotalCapacity >= guests) =>
        /\ err = "none"
        /\ Finished => Returned
        /\ (Returned /\ query = 0) => ret = <<>>

AllRoomsHaveBeds == \A r \in AllIds : roomList[r].available >= 1

\* every allocation of every returned assignment seats between 1 guest and
\* the capacity of its room
AllocationsInRange ==
    \A i \in 1..Len(ret) : \A k \in 1..Len(ret[i].roomConfig) :
        /\ ret[i].roomConfig[k].guests >= 1
        /\ ret[i].roomConfig[k].guests <= roomList[ret[i].roomConfig[k].id].available

\* C15 (as claimed): in roomAssignmentByRoomOccupancy, when every capacity is
\* >= 1 and guests >= 1, every allocation of every returned assignment is
\* >= 1 and <= the capacity of its room.
C15_OccupancyAllocationRange ==
    (Returned /\ fn = "occupancy" /\ AllRoomsHaveBeds /\ guests >= 1) =>
        AllocationsInRange

\* C16: in roomAssignmentByPrice, when every capacity is >= 1 and guests >= 1,
\* every allocation of every returned assignment is >= 1 and <= the capacity
\* of its room.
C16_PriceAllocationRange ==
    (Returned /\ fn = "price" /\ AllRoomsHaveBeds /\ guests >= 1) =>
        AllocationsInRange

\* a returned price assignment of two or more rooms whose last room is
\* filled below its capacity
C16_Witness ==
    /\ Returned /\ fn = "price" /\ AllRoomsHaveBeds /\ guests >= 1
    /\ \E i \in 1..Len(ret) :
          LET rc == ret[i].roomConfig
          IN  /\ Len(rc) >= 2
              /\ rc[Len(rc)].guests < roomList[rc[Len(rc)].id].available

\* C17 (as claimed): among the multi-room occupancy results with the same
\* number of rooms and the same product of guest counts, the one with the
\* lower totalPrice comes before the one with the higher totalPrice.
C17_TertiaryMinimumPrice ==
    (Returned /\ fn = "occupancy") =>
        \A i, j \in 1..Len(ret) :
            (/\ RoomCount(ret[i]) >= 2
             /\ RoomCount(ret[i]) = RoomCount(ret[j])
             /\ GuestsProduct(ret[i]) = GuestsProduct(ret[j])
             /\ ret[i].totalPrice < ret[j].totalPrice) => i < j

FittingRooms == {r \in AllIds : roomList[r].available >= guests}

SingleRoomPassDone == fn = "occupancy" /\ pc \notin {"start", "error"}

\* C18: the single-room pass of roomAssignmentByRoomOccupancy builds exactly
\* one assignment per room with capacity >= guests, each giving all guests to
\* that room, in ascending order of capacity; with more than `query` such
\* rooms the call returns exactly the first `query` of them and nothing else.
C18_SingleRoomPass ==
    SingleRoomPassDone =>
        /\ Len(resultOneRoom) = Cardinality(FittingRooms)
        /\ {resultOneRoom[i].roomConfig[1].id : i \in 1..Len(resultOneRoom)} = FittingRooms
        /\ \A i \in 1..Len(resultOneRoom) :
              /\ RoomCount(resultOneRoom[i]) = 1
              /\ resultOneRoom[i].roomConfig[1].guests = guests
        /\ \A i, j \in 1..Len(resultOneRoom) :
              i < j => roomList[resultOneRoom[i].roomConfig[1].id].available
                          <= roomList[resultOneRoom[j].roomConfig[1].id].available
        /\ Cardinality(FittingRooms) > query =>
              /\ Returned
              /\ ret = SubSeq(resultOneRoom, 1, query)
              /\ resultMultipleRooms = <<>>
        /\ Returned =>
              \A i \in 1..Len(ret) :
                  i <= Len(resultOneRoom) => ret[i] = resultOneRoom[i]

\* the call has returned the first `query` of more than `query` fitting rooms,
\* the tightest of them smaller than a fitting room left out
C18_Witness ==
    /\ SingleRoomPassDone /\ Returned /\ guests >= 1 /\ query >= 1
    /\ Cardinality(FittingRooms) > query
    /\ Len(ret) = query
    /\ \E r \in FittingRooms :
          roomList[r].available > roomList[ret[1].roomConfig[1].id].available

LargestCount(config) ==
    CHOOSE m \in {config.roomConfig[k].guests : k \in 1..Len(config.roomConfig)} :
        \A k \in 1..Len(config.roomConfig) : config.roomConfig[k].guests <= m

Min2(a, b) == IF a <= b THEN a ELSE b

\* the guests that fit in the rooms of `config` when no room takes more than m
SeatsUpTo(config, m) ==
    SumSeq([k \in 1..Len(config.roomConfig) |->
               Min2(roomList[config.roomConfig[k].id].available, m)])

\* C19: in every multi-room assignment returned by roomAssignmentByRoomOccupancy
\* the largest guest count is the least one any distribution of `guests`
\* over exactly those rooms within their capacities can have, and a room
\* filled below its capacity holds at least the largest count minus 1.
C19_LevelingMinimisesMaximum ==
    (Returned /\ fn = "occupancy") =>
        \A i \in 1..Len(ret) :
            RoomCount(ret[i]) >= 2 =>
                /\ SeatsUpTo(ret[i], LargestCount(ret[i])) >= guests
                /\ \A m \in 0..(LargestCount(ret[i]) - 1) : SeatsUpTo(ret[i], m) < guests
                /\ \A k \in 1..Len(ret[i].roomConfig) :
                      ret[i].roomConfig[k].guests < roomList[ret[i].roomConfig[k].id].available
                          => ret[i].roomConfig[k].guests >= LargestCount(ret[i]) - 1

\* a returned multi-room assignment in which leveling took a guest from two
\* different rooms, each still holding one
C19_Witness ==
    /\ Returned /\ fn = "occupancy" /\ guests >= 2
    /\ \E i \in 1..Len(ret) :
          /\ RoomCount(ret[i]) >= 2
          /\ \E k, l \in 1..Len(ret[i].roomConfig) :
                /\ k # l
                /\ ret[i].roomConfig[k].guests >= 1
                /\ ret[i].roomConfig[l].guests >= 1
                /\ ret[i].roomConfig[k].guests < roomList[ret[i].roomConfig[k].id].available
                /\ ret[i].roomConfig[l].guests < roomList[ret[i].roomConfig[l].id].available

Terminated == pc = "done" \/ (pc = "error" /\ err = "Not enough space.")

\* C20: for guests >= 1 and every query >= 0, roomAssignmentByPrice and
\* roomAssignmentByRoomOccupancy eventually finish: they return a list or
\* raise 'Not enough space.'; no loop of either runs forever.
C20_Termination ==
    (pc = "start" /\ fn \in {"price", "occupancy"} /\ guests >= 1) ~> Terminated

\* an occupancy call has returned after the minimum-room-count loop counted
\* two rooms or more, the enumeration went on to a larger size and leveling
\* took guests out of a room
C20_Witness ==
    /\ Returned /\ fn = "occupancy" /\ guests >= 1
    /\ topRoomSelectedCount >= guests
    /\ minimumRoomsNeeded >= 4
    /\ \E i \in 1..Len(ret) : \E k \in 1..Len(ret[i].roomConfig) :
          /\ RoomCount(ret[i]) >= 2
          /\ ret[i].roomConfig[k].guests < roomList[ret[i].roomConfig[k].id].available

\* pointerArray without its trailing boundary
IndexVector == SubSeq(pointerArray, 1, Len(pointerArray) - 1)

\* a is strictly smaller than b in lexicographic order; a proper prefix is smaller
RECURSIVE LexLess(_, _)
LexLess(a, b) ==
    IF b = <<>> THEN FALSE
    ELSE IF a = <<>> THEN TRUE
    ELSE IF Head(a) # Head(b) THEN Head(a) < Head(b)
    ELSE LexLess(Tail(a), Tail(b))

\* C21: every iteration of the search loop of roomAssignmentByPrice that does
\* not return replaces the index vector by a lexicographically greater one
\* (a proper extension counts as greater), so no index vector comes twice.
C21_LexicographicProgress ==
    [][(fn = "price" /\ pc = "dfs" /\ pc' # "done") =>
           LexLess(IndexVector, IndexVector')]_vars

\* the search has backtracked past the first room after emitting a result:
\* the index vector starts at a later room and has two rooms or more
C21_Witness ==
    /\ fn = "price" /\ pc = "dfs" /\ guests >= 1
    /\ Len(result) >= 1
    /\ Len(IndexVector) >= 2
    /\ IndexVector[1] >= 1

\* the subset size of the enumeration that has just ended: pointerArray holds
\* one index per room of the subset and the boundary
EnumeratedSize == Len(pointerArray) - 1

\* C22: in roomAssignmentByRoomOccupancy the subset sizes are enumerated
\* consecutively: after the enumeration of one size ends, the next size
\* enumerated is that size plus one, unless the results have reached query or
\* that size exceeds the number of rooms, and only then the loop is left.
C22_ConsecutiveSizes ==
    [][(fn = "occupancy" /\ pc = "sizes" /\ pointerArray # <<>>) =>
           IF /\ Len(resultOneRoom) + Len(resultMultipleRooms) < query
              /\ EnumeratedSize + 1 <= Len(roomListSorted)
           THEN pc' = "subsets" /\ Len(pointerArray') - 1 = EnumeratedSize + 1
           ELSE pc' = "done"]_vars

EmittedIdSets == {IdsOf(resultMultipleRooms[i]) : i \in 1..Len(resultMultipleRooms)}

\* C23: pruning loses no feasible subset: when the enumeration of one size has
\* ended in roomAssignmentByRoomOccupancy (guests >= 1), every set of that
\* many rooms whose capacities sum to at least `guests` has been emitted.
C23_PruningSoundness ==
    (fn = "occupancy" /\ pc = "sizes" /\ pointerArray # <<>> /\ guests >= 1) =>
        \A ids \in FeasibleIdSets :
            Cardinality(ids) = EnumeratedSize => ids \in EmittedIdSets

\* the room the search added last to the subset of a pushed config
LastAdded(config) == config.roomConfig[Len(config.roomConfig)].id

\* C24: every subset pushed by roomAssignmentByPrice (guests >= 1) is minimal
\* along its path: its capacities sum to at least `guests`, and without the
\* room added last (the one of the highest price-sorted index) to less.
C24_MinimalAlongPath ==
    (fn = "price" /\ guests >= 1) =>
        \A i \in 1..Len(result) :
            /\ CapacityOf(IdsOf(result[i])) >= guests
            /\ CapacityOf(IdsOf(result[i]) \ {LastAdded(result[i])}) < guests

\* a pushed subset of three rooms, whose first two rooms have beds and yet
\* lack one for the guests
C24_Witness ==
    /\ fn = "price" /\ guests >= 1
    /\ \E i \in 1..Len(result) :
          /\ RoomCount(result[i]) = 3
          /\ result[i].roomConfig[1].guests >= 1
          /\ result[i].roomConfig[2].guests >= 1
          /\ CapacityOf(IdsOf(result[i]) \ {LastAdded(result[i])}) = guests - 1

\* C25: roomAssignmentByPrice returns fewer than `query` assignments only when
\* the search space is exhausted: every room subset that is feasible, and
\* infeasible without its room of the highest price-sorted index, is then in
\* the returned list.
C25_ExhaustiveSearch ==
    (Returned /\ fn = "price" /\ Len(ret) < query) =>
        \A T \in SUBSET SortedPositions :
            MinimalFeasible(T) => SortedIds(T) \in ReturnedIdSets

\* the position of a room in the price-sorted list
SortedIndexOf(id) == CHOOSE p \in 1..Len(roomListSorted) : roomListSorted[p].id = id

\* C26: in every assignment returned by roomAssignmentByPrice the allocations
\* are listed in ascending price-sorted order, every room but the last gets
\* its full capacity, and the last room gets `guests` minus the capacities of
\* the other rooms.
C26_DistributionPolicy ==
    (Returned /\ fn = "price") =>
        \A i \in 1..Len(ret) :
            LET rc == ret[i].roomConfig
                n == Len(rc)
            IN  /\ n >= 1
                /\ \A k \in 1..(n - 1) :
                      /\ SortedIndexOf(rc[k].id) < SortedIndexOf(rc[k + 1].id)
                      /\ rc[k].guests = roomList[rc[k].id].available
                /\ rc[n].guests =
                      guests - CapacityOf(IdsOf(ret[i]) \ {rc[n].id})

\* a returned assignment of two rooms or more whose first room is not the
\* first of the input list and whose last room keeps a bed free
C26_Witness ==
    /\ Returned /\ fn = "price" /\ guests >= 1
    /\ \E i \in 1..Len(ret) :
          /\ RoomCount(ret[i]) >= 2
          /\ ret[i].roomConfig[1].id > ret[i].roomConfig[2].id
          /\ ret[i].roomConfig[RoomCount(ret[i])].guests <
                 roomList[LastAdded(ret[i])].available

\* every way of putting `guests` guests into rooms of the list, no room
\* taking more than it has beds
Distributions ==
    {d \in [AllIds -> 0..guests] :
        /\ \A r \in AllIds : d[r] <= roomList[r].available
        /\ SumSeq([r \in 1..Len(roomList) |-> d[r]]) = guests}

DistributionCost(d) == SumSeq([r \in 1..Len(roomList) |-> d[r] * roomList[r].price])

\* C27: the first assignment returned by roomAssignmentByPrice (guests >= 1,
\* query >= 1) is globally cheapest: no distribution of the guests over rooms
\* of the list that respects the capacities costs less.
C27_FirstIsCheapest ==
    (Returned /\ fn = "price" /\ guests >= 1 /\ query >= 1) =>
        /\ Len(ret) >= 1
        /\ \A d \in Distributions : ret[1].totalPrice <= DistributionCost(d)

\* the cheapest assignment uses a room that comes after a dearer room with
\* beds in the input list, and other assignments were returned with it
C27_Witness ==
    /\ Returned /\ fn = "price" /\ guests >= 2 /\ query >= 2
    /\ Len(ret) >= 2
    /\ ret[1].totalPrice < ret[2].totalPrice
    /\ \E k \in 1..RoomCount(ret[1]) : \E r \in AllIds :
          /\ r < ret[1].roomConfig[k].id
          /\ roomList[r].price > ret[1].roomConfig[k].price
          /\ roomList[r].available >= 1
          /\ ret[1].roomConfig[k].guests >= 1

\* C28: the first assignment returned by roomAssignmentByRoomOccupancy
\* (guests >= 1, query >= 1) uses the minimum possible number of rooms: no
\* set of fewer rooms has capacities that sum to at least `guests`.
C28_FirstUsesFewestRooms ==
    (Returned /\ fn = "occupancy" /\ guests >= 1 /\ query >= 1) =>
        /\ Len(ret) >= 1
        /\ \A ids \in FeasibleIdSets : Cardinality(ids) >= RoomCount(ret[1])

\* no room and no pair of rooms holds the guests: the first assignment uses
\* three rooms, and the rooms with the most beds are not the first of the list
C28_Witness ==
    /\ Returned /\ fn = "occupancy" /\ guests >= 1 /\ query >= 1
    /\ Len(ret) >= 1
    /\ RoomCount(ret[1]) = 3
    /\ Len(roomList) = 4
    /\ roomList[1].available < roomList[4].available

\* C29: for every feasible input with guests >= 1 the compiled
\* roomAssignmentByPrice of index.js returns the same list as the
\* roomAssignmentByPrice of part_000.
C29_CompiledAgrees ==
    (Returned /\ fn = "price" /\ guests >= 1) => retJs = ret

\* the indices are strictly increasing and each one is an index of the sorted list
WellFormed(indices) ==
    /\ InRange(indices, roomListSorted)
    /\ \A k \in 1..(Len(indices) - 1) : indices[k] < indices[k + 1]

\* C30: for every feasible input with guests >= 1, wherever an assigner maps an
\* index vector to rooms (each iteration of the price search and of the
\* fixed-size enumeration, each step of the minimum-room-count loop) the
\* indices are strictly increasing and lie in 0..n-1: no room is read outside
\* the sorted list, none occurs twice in a subset.
C30_IndexVectorWellFormed ==
    (guests >= 1 /\ fn \in {"price", "occupancy"}) =>
        /\ err # "TypeError"
        /\ (fn = "price" /\ pc = "dfs") => WellFormed(IndexVector)
        /\ (fn = "occupancy" /\ (pc = "level" \/ (pc = "subsets" /\ isFillable))) =>
              WellFormed(CurrentIndices)
        /\ (fn = "occupancy" /\ pc = "minimum" /\ guests > topRoomSelectedCount) =>
              minimumRoomsNeeded \in 0..(Len(roomListSorted) - 1)

\* the fixed-size enumeration is about to map an index vector that skips a
\* room and ends on the last room of the list
C30_Witness ==
    /\ fn = "occupancy" /\ guests >= 1
    /\ pc = "subsets" /\ isFillable
    /\ Len(roomListSorted) = 4
    /\ Len(CurrentIndices) = 3
    /\ CurrentIndices[1] = 0
    /\ CurrentIndices[2] = 2
    /\ CurrentIndices[3] = 3

====
